---- MODULE Spec2Model ----
(***************************************************************************)
(* ConText engine of nlp/algorithms/context/context.py.                    *)
(*                                                                         *)
(* Text is modelled at word level.  A sentence is a sequence of words      *)
(* separated by single blanks; the empty word "" stands for the gap        *)
(* between two consecutive blanks.  A term is a sequence of words; the     *)
(* word "(" stands for a regular-expression metacharacter that does not    *)
(* form a valid pattern.  A rule is one line of a trigger file:            *)
(* [text |-> words of the phrase, tag |-> the TAG of "\t\t[TAG]"], with    *)
(* tag "NONE" for a line without the suffix.  Letter case is not modelled. *)
(***************************************************************************)
EXTENDS Integers, Sequences, FiniteSets, TLC

\* ------------------------------------------------------------------ bounds
MaxRules == 4        \* a rule list is not appended to beyond this length
MaxContexts == 1     \* Context objects constructed per behaviour
NumThreads == 2      \* threads of the concurrent specifications
MaxPad == 1          \* scan sentences: tokens in front of the first trigger or term
MaxDist == 10        \* scan sentences: tokens from the trigger to the term
MaxTail == 1         \* scan sentences: tokens behind the last trigger or term
MaxGap == 7          \* scan sentences: words in the gap of a rewrite pattern
MaxLoopLen == 6      \* words of the sentences of the calls run statement by statement

\* ------------------------------------------------------- program constants
negative_window == 4
K_negated == "negated"
K_experiencier == "experiencier"
K_historical == "historical"
K_hypothetical == "hypothetical"

\* the dict filled with the hypothetical list before the historical one
KeyOrder_HypotheticalFirst == <<K_negated, K_experiencier, K_hypothetical, K_historical>>
\* the keys of all_terms in insertion order (context_init)
KeyOrder == <<K_negated, K_experiencier, K_historical, K_hypothetical>>
Keys == {KeyOrder[i] : i \in DOMAIN KeyOrder}

windows == [k \in Keys |->
              CASE k = K_negated -> 5
                [] k = K_experiencier -> 8
                [] k = K_historical -> 8
                [] k = K_hypothetical -> 5]

\* "experiencier" mapped to a Negation value
feature_map_ExperiencerAsNegation ==
  [k \in {K_negated, K_experiencier, K_historical, K_hypothetical, "possible"} |->
              CASE k = K_negated -> [axis |-> "negex", value |-> "Negated"]
                [] k = "possible" -> [axis |-> "negex", value |-> "Possible"]
                [] k = K_experiencier -> [axis |-> "negex", value |-> "Possible"]
                [] k = K_historical -> [axis |-> "temporality", value |-> "Historical"]
                [] k = K_hypothetical -> [axis |-> "temporality", value |-> "Hypothetical"]]
\* feature_map; "possible" is a key of the dict that no loaded category carries
feature_map == [k \in Keys \cup {"possible"} |->
              CASE k = K_negated -> [axis |-> "negex", value |-> "Negated"]
                [] k = "possible" -> [axis |-> "negex", value |-> "Possible"]
                [] k = K_experiencier -> [axis |-> "experiencier", value |-> "Other"]
                [] k = K_historical -> [axis |-> "temporality", value |-> "Historical"]
                [] k = K_hypothetical -> [axis |-> "temporality", value |-> "Hypothetical"]]

StopTags == {"CONJ", "PSEU", "POST", "PREN", "PREP", "POSP", "FSTT", "ONEW"}
\* the tags of line 168 without [PREN]
FwdTags_WithoutPREN == {"FSTT", "ONEW"}
FwdTags == {"PREN", "FSTT", "ONEW"}
\* the tags of line 185 with [CONJ]
BwdTags_WithCONJ == {"POST", "FSTT", "CONJ"}
BwdTags == {"POST", "FSTT"}

\* the prefix alternatives of the two duration patterns, in pattern order
over_several_prefixes ==
  << <<"within", "the", "last">>, <<"in", "the", "last">>, <<"for", "the", "past">>,
     <<"for", "the", "last">>, <<"over", "the", "past">>, <<"over", "the", "last">>,
     <<"for">> >>
over_several_units == {"days", "day"}
for_the_past_prefixes ==
  << <<"for", "the", "past">>, <<"for", "the", "last">>, <<"over", "the", "past">>,
     <<"over", "the", "last">>, <<"for">> >>
for_the_past_units == {"weeks", "week", "months", "month", "years", "year"}
DurationMaxGap == 6

\* ---------------------------------------------------------------- helpers
\* Operator arguments and LET definitions are evaluated where they are used;
\* Only({e(x) : x \in {d}}) evaluates d once and stands for "LET x == d IN e(x)".
Only(S) == CHOOSE x \in S : TRUE

RECURSIVE SumLen(_)
SumLen(ws) == IF ws = <<>> THEN 0 ELSE Len(Head(ws)) + SumLen(Tail(ws))

\* len(rule) of the line "w1 w2 .. wk\t\t[TAG]"
RuleLen(r) ==
  SumLen(r.text) + (Len(r.text) - 1) + (IF r.tag = "NONE" THEN 0 ELSE Len(r.tag) + 4)

\* rules.sort(key=len, reverse=True): stable, longest line first
RECURSIVE SortRules(_)
SortRules(rules) ==
  IF rules = <<>> THEN <<>>
  ELSE LET top == CHOOSE n \in {RuleLen(rules[i]) : i \in DOMAIN rules} :
                     \A i \in DOMAIN rules : RuleLen(rules[i]) <= n
           IsTop(r) == RuleLen(r) = top
           NotTop(r) == RuleLen(r) # top
       IN  SelectSeq(rules, IsTop) \o SortRules(SelectSeq(rules, NotTop))

\* the words w[p .. p+Len(ws)-1] of s are ws
WordsAt(s, p, ws) ==
  /\ p >= 1
  /\ p + Len(ws) - 1 <= Len(s)
  /\ \A m \in 1..Len(ws) : s[p + m - 1] = ws[m]

\* re.compile of a pattern built from the term succeeds
ValidPattern(term) == \A m \in DOMAIN term : term[m] # "("

\* [a-z]+ under IGNORECASE
Alphabetic(w) == w \notin {"", "-", "(", "3"}
\* \w+
WordChars(w) == w \notin {"", "-", "("}

\* ------------------------------------------------ sentence under annotation
\* One cell per blank-separated piece of eval_sentence:
\*   w    the word
\*   pre  the opening tags spliced in front of it, outermost first
\*   post the closing tags behind it, innermost first
\*   glue TRUE when "_" (not " ") joins it to the next cell
\*   qo   a quote of repr(target_phrase) stands in front of the word
\*   qc   a quote of repr(target_phrase) stands behind the word
Cell(w) == [w |-> w, pre |-> <<>>, post |-> <<>>, glue |-> FALSE, qo |-> FALSE, qc |-> FALSE]

\* sentence.replace(target_phrase, repr(target_phrase).replace(" ", "_"))
RECURSIVE QuoteTarget(_, _, _)
QuoteTarget(s, p, term) ==
  IF p > Len(s) THEN <<>>
  ELSE IF WordsAt(s, p, term)
       THEN [m \in 1..Len(term) |->
               [Cell(term[m]) EXCEPT !.glue = (m < Len(term)),
                                     !.qo = (m = 1),
                                     !.qc = (m = Len(term))]]
            \o QuoteTarget(s, p + Len(term), term)
       ELSE <<Cell(s[p])>> \o QuoteTarget(s, p + 1, term)

\* ------------------------------------------------------ duration patterns
\* alternative a of the pattern matches at cell p: the prefix words, then at
\* most DurationMaxGap \w+ words, then a unit word
DurMatchAt(cells, p, a, units) ==
  /\ p + Len(a) - 1 <= Len(cells)
  /\ \A m \in 1..Len(a) : cells[p + m - 1].w = a[m]
  /\ \A m \in 1..Len(a) : ~cells[p + m - 1].glue
  /\ \A m \in 1..Len(a) - 1 : ~cells[p + m - 1].qc /\ ~cells[p + m].qo
  /\ ~cells[p + Len(a) - 1].qc
  /\ \E e \in (p + Len(a))..Len(cells) :
       /\ cells[e].w \in units
       /\ ~cells[e].qo
       /\ \A g \in (p + Len(a))..(e - 1) :
            /\ cells[g].w = "" \/ WordChars(cells[g].w)
            /\ ~cells[g].qo /\ ~cells[g].qc /\ ~cells[g].glue
       /\ Cardinality({g \in (p + Len(a))..(e - 1) : cells[g].w # ""}) <= DurationMaxGap

\* re.findall(pattern, eval_sentence)[0][0].strip(), or <<>> without a match
DurationPrefix(cells, prefixes, units) ==
  LET hits == {p \in DOMAIN cells :
                 \E i \in DOMAIN prefixes : DurMatchAt(cells, p, prefixes[i], units)}
  IN  IF hits = {} THEN <<>>
      ELSE LET p == CHOOSE x \in hits : \A y \in hits : x <= y
               i == CHOOSE x \in DOMAIN prefixes :
                      /\ DurMatchAt(cells, p, prefixes[x], units)
                      /\ \A y \in 1..(x - 1) : ~DurMatchAt(cells, p, prefixes[y], units)
           IN  prefixes[i]

ConjRule(text) == [text |-> text, tag |-> "CONJ"]

\* lines 120-127: the rules appended to the historical list
HistoricalExtra(cells) ==
  LET a == DurationPrefix(cells, over_several_prefixes, over_several_units)
      b == DurationPrefix(cells, for_the_past_prefixes, for_the_past_units)
  IN  (IF a = <<>> THEN <<>> ELSE <<ConjRule(a)>>)
      \o (IF b = <<>> THEN <<>> ELSE <<ConjRule(b)>>)

\* ----------------------------------------------------------------- tagging
\* \b(rule_text)\b matches at cell p
RuleAt(cells, p, text) ==
  LET k == Len(text)
  IN  /\ p + k - 1 <= Len(cells)
      /\ \A m \in 1..k : cells[p + m - 1].w = text[m]
      /\ \A m \in 1..(k - 1) :
           /\ ~cells[p + m - 1].glue
           /\ cells[p + m - 1].post = <<>> /\ ~cells[p + m - 1].qc
           /\ cells[p + m].pre = <<>> /\ ~cells[p + m].qo
      /\ p = 1 \/ ~cells[p - 1].glue
      /\ ~cells[p + k - 1].glue

\* the match at p..p+k-1 replaced by "[TAG]w1_w2_.._wk[/TAG]"
Splice(cells, p, k, tag) ==
  [x \in DOMAIN cells |->
     IF x < p \/ x > p + k - 1 THEN cells[x]
     ELSE [cells[x] EXCEPT
             !.pre = IF x = p THEN Append(@, tag) ELSE @,
             !.post = IF x = p + k - 1 THEN <<tag>> \o @ ELSE @,
             !.glue = IF x < p + k - 1 THEN TRUE ELSE @]]

\* lines 133-154 for one rule, scanning from cell p: the annotated cells and
\* the number of matches.  A match of a rule without tag raises (IndexError
\* on rule_tokens[1]).
RECURSIVE ApplyRule(_, _, _, _)
ApplyRule(cells, p, rule, n) ==
  IF p > Len(cells) THEN [cells |-> cells, n |-> n, exc |-> FALSE]
  ELSE IF RuleAt(cells, p, rule.text)
       THEN IF rule.tag = "NONE"
            THEN [cells |-> cells, n |-> n, exc |-> TRUE]
            ELSE ApplyRule(Splice(cells, p, Len(rule.text), rule.tag),
                           p + Len(rule.text), rule, n + 1)
       ELSE ApplyRule(cells, p + 1, rule, n)

\* the loop "for rule in rules" from index x on
RECURSIVE ApplyRules(_, _, _, _)
ApplyRules(cells, rules, x, n) ==
  IF x > Len(rules) THEN [cells |-> cells, n |-> n, exc |-> FALSE]
  ELSE LET r == ApplyRule(cells, 1, rules[x], n)
       IN  IF r.exc THEN r ELSE ApplyRules(r.cells, rules, x + 1, r.n)

\* ---------------------------------------------------------------- scanning
\* one piece of matched_phrase: a token and whether a blank follows it
Item(c, sp) == [c |-> c, sp |-> sp]

\* stripped.startswith("[TAG]") for a TAG of tags
Starts(c, tags) == ~c.qo /\ c.pre # <<>> /\ c.pre[1] \in tags

stop_trigger(c) == Starts(c, StopTags)

\* re.finditer(phrase_regex, matched_phrase) yields a match
PhraseMatch(term, mp) ==
  LET k == Len(term)
  IN  \E q \in 1..(Len(mp) - k + 1) :
        /\ \A m \in 1..k : mp[q + m - 1].c.w = term[m]
        /\ \A m \in 1..(k - 1) :
             /\ mp[q + m - 1].sp
             /\ mp[q + m - 1].c.post = <<>> /\ ~mp[q + m - 1].c.qc
             /\ mp[q + m].c.pre = <<>> /\ ~mp[q + m].c.qo
        /\ \/ q = 1
           \/ mp[q - 1].sp \/ mp[q - 1].c.w = ""
           \/ mp[q - 1].c.post # <<>> \/ mp[q - 1].c.qc
           \/ mp[q].c.pre # <<>> \/ mp[q].c.qo
        /\ \/ q + k - 1 = Len(mp)
           \/ mp[q + k - 1].sp
           \/ mp[q + k - 1].c.post # <<>> \/ mp[q + k - 1].c.qc
           \/ mp[q + k].c.pre # <<>> \/ mp[q + k].c.qo

ContextFeature(mp, ev, key) == [matched_phrase |-> mp, eval_sentence |-> ev, context_type |-> key]

\* a forward scan that keeps the candidate phrase when it emits a feature
RECURSIVE ForwardScan_KeepsPhrase(_, _, _, _, _, _, _)
ForwardScan_KeepsPhrase(toks, ev, term, key, j, bt, st) ==
  IF j >= Len(toks) THEN st
  ELSE LET mp1 == Append(st.mp, Item(toks[j + 1], TRUE))
           bt1 == \/ bt
                  \/ j >= Len(toks) - 1
                  \/ j > windows[key]
                  \/ stop_trigger(toks[j + 1])
           hit == bt1 /\ PhraseMatch(term, mp1)
       IN  ForwardScan_KeepsPhrase(toks, ev, term, key, j + 1,
                       IF hit THEN FALSE ELSE bt1,
                       IF hit THEN [mp |-> mp1,
                                    found |-> Append(st.found, ContextFeature(mp1, ev, key))]
                              ELSE [st EXCEPT !.mp = mp1])
\* lines 169-183: the forward scan, j counted from 0 as in the code.
\* st = [mp |-> matched_phrase, found |-> found]
RECURSIVE ForwardScan(_, _, _, _, _, _, _)
ForwardScan(toks, ev, term, key, j, bt, st) ==
  IF j >= Len(toks) THEN st
  ELSE LET mp1 == Append(st.mp, Item(toks[j + 1], TRUE))
           bt1 == \/ bt
                  \/ j >= Len(toks) - 1
                  \/ j > windows[key]
                  \/ stop_trigger(toks[j + 1])
           hit == bt1 /\ PhraseMatch(term, mp1)
       IN  ForwardScan(toks, ev, term, key, j + 1,
                       IF hit THEN FALSE ELSE bt1,
                       IF hit THEN [mp |-> <<>>,
                                    found |-> Append(st.found, ContextFeature(mp1, ev, key))]
                              ELSE [st EXCEPT !.mp = mp1])

\* a backward scan that puts each token in front of the candidate phrase
RECURSIVE BackwardScan_Accumulates(_, _, _, _, _, _, _, _)
BackwardScan_Accumulates(toks, ev, term, key, i, j, bt, st) ==
  IF j < 0 THEN st
  ELSE LET mp1 == <<Item(toks[j + 1], TRUE)>> \o st.mp
           bt1 == \/ bt
                  \/ j = 0
                  \/ j < i - negative_window
                  \/ stop_trigger(toks[j + 1])
           hit == bt1 /\ PhraseMatch(term, mp1)
       IN  BackwardScan_Accumulates(toks, ev, term, key, i, j - 1,
                        IF hit THEN FALSE ELSE bt1,
                        IF hit THEN [mp |-> <<>>,
                                     found |-> Append(st.found, ContextFeature(mp1, ev, key))]
                               ELSE [st EXCEPT !.mp = mp1])
\* lines 186-200: the backward scan from the token in front of token i
RECURSIVE BackwardScan(_, _, _, _, _, _, _, _)
BackwardScan(toks, ev, term, key, i, j, bt, st) ==
  IF j < 0 THEN st
  ELSE LET mp1 == <<Item(toks[j + 1], FALSE)>>
           bt1 == \/ bt
                  \/ j = 0
                  \/ j < i - negative_window
                  \/ stop_trigger(toks[j + 1])
           hit == bt1 /\ PhraseMatch(term, mp1)
       IN  BackwardScan(toks, ev, term, key, i, j - 1,
                        IF hit THEN FALSE ELSE bt1,
                        IF hit THEN [mp |-> <<>>,
                                     found |-> Append(st.found, ContextFeature(mp1, ev, key))]
                               ELSE [st EXCEPT !.mp = mp1])

\* lines 165-200: the loop over the tokens, i counted from 0
RECURSIVE ScanTokens(_, _, _, _, _, _)
ScanTokens(toks, ev, term, key, i, st) ==
  IF i >= Len(toks) THEN st
  ELSE LET st1 == IF Starts(toks[i + 1], FwdTags)
                  THEN ForwardScan(toks, ev, term, key, i + 1, FALSE, st)
                  ELSE st
           st2 == IF Starts(toks[i + 1], BwdTags)
                  THEN BackwardScan(toks, ev, term, key, i, i - 1, FALSE, st1)
                  ELSE st1
       IN  ScanTokens(toks, ev, term, key, i + 1, st2)

\* eval_sentence.replace("_", " ")
Unglue(cells) == [x \in DOMAIN cells |-> [cells[x] EXCEPT !.glue = FALSE]]

\* eval_sentence.strip().split(' '): blanks at both ends are dropped
RECURSIVE StripLeft(_)
StripLeft(cells) ==
  IF cells # <<>> /\ Head(cells).w = "" /\ Head(cells).pre = <<>> /\ ~Head(cells).qo
  THEN StripLeft(Tail(cells)) ELSE cells
RECURSIVE StripRight(_)
StripRight(cells) ==
  IF cells # <<>> /\ cells[Len(cells)].w = "" /\ cells[Len(cells)].pre = <<>>
     /\ ~cells[Len(cells)].qo
  THEN StripRight(SubSeq(cells, 1, Len(cells) - 1)) ELSE cells
Tokens(cells) == StripRight(StripLeft(cells))

\* lines 156-200
ScanSentence(cells, term, key) ==
  LET ev == Unglue(cells)
  IN  ScanTokens(Tokens(ev), ev, term, key, 0, [mp |-> <<>>, found |-> <<>>]).found

\* run_individual_context that returns what a scan of the partly tagged
\* sentence finds although the tagging raised
run_individual_context_ScanAfterException(sentence, term, key, rules) ==
  LET cells == QuoteTarget(sentence, 1, term)
      grown == IF key = K_historical THEN rules \o HistoricalExtra(cells) ELSE rules
      sorted == SortRules(grown)
      tagged == ApplyRules(cells, sorted, 1, 0)
  IN  [found |-> IF tagged.n = 0 THEN <<>>
                 ELSE ScanSentence(tagged.cells, term, key),
       rules |-> sorted,
       exc |-> tagged.exc]
\* run_individual_context(sentence, target_phrase, key, rules, phrase_regex):
\* [found |-> the returned list, rules |-> the list object afterwards,
\*  exc |-> an exception was caught]
run_individual_context(sentence, term, key, rules) ==
  LET cells == QuoteTarget(sentence, 1, term)
      grown == IF key = K_historical THEN rules \o HistoricalExtra(cells) ELSE rules
      sorted == SortRules(grown)
      tagged == ApplyRules(cells, sorted, 1, 0)
  IN  [found |-> IF tagged.exc \/ tagged.n = 0 THEN <<>>
                 ELSE ScanSentence(tagged.cells, term, key),
       rules |-> sorted,
       exc |-> tagged.exc]

\* -------------------------------------------------------------- normalizer
\* A pattern is a sequence of elements matched against the non-empty words of
\* the sentence with the backtracking order of re:
\*   [t |-> "alt", alts |-> <<ws1, ws2, ..>>]   (ws1|ws2|..), first that fits
\*   [t |-> "words", min |-> m]                 (word)+? / (word)*?, nongreedy
\*   [t |-> "opt", ws |-> ws]                   (ws)?, greedy
\*   [t |-> "term"]                             expected_term
Alt(alts) == [t |-> "alt", alts |-> alts]
Words(m) == [t |-> "words", min |-> m]
Opt(ws) == [t |-> "opt", ws |-> ws]
TermEl == [t |-> "term"]

\* the index of the last word of the match of pat[k..] that starts at word n,
\* 0 when there is none
RECURSIVE RxMatch(_, _, _, _, _)
RECURSIVE RxAlt(_, _, _, _, _, _)
RECURSIVE RxWords(_, _, _, _, _, _)
RxMatch(pat, k, ws, n, term) ==
  IF k > Len(pat) THEN n - 1
  ELSE LET el == pat[k]
       IN  CASE el.t = "alt" -> RxAlt(pat, k, ws, n, term, 1)
             [] el.t = "words" ->
                  IF \A g \in n..(n + el.min - 1) : g <= Len(ws) /\ Alphabetic(ws[g])
                  THEN RxWords(pat, k, ws, n, term, el.min)
                  ELSE 0
             [] el.t = "opt" ->
                  LET with == IF WordsAt(ws, n, el.ws)
                              THEN RxMatch(pat, k + 1, ws, n + Len(el.ws), term)
                              ELSE 0
                  IN  IF with # 0 THEN with ELSE RxMatch(pat, k + 1, ws, n, term)
             [] el.t = "term" ->
                  IF WordsAt(ws, n, term)
                  THEN RxMatch(pat, k + 1, ws, n + Len(term), term)
                  ELSE 0
RxAlt(pat, k, ws, n, term, i) ==
  IF i > Len(pat[k].alts) THEN 0
  ELSE LET r == IF WordsAt(ws, n, pat[k].alts[i])
                THEN RxMatch(pat, k + 1, ws, n + Len(pat[k].alts[i]), term)
                ELSE 0
       IN  IF r # 0 THEN r ELSE RxAlt(pat, k, ws, n, term, i + 1)
RxWords(pat, k, ws, n, term, g) ==
  LET r == RxMatch(pat, k + 1, ws, n + g, term)
  IN  IF r # 0 THEN r
      ELSE IF n + g <= Len(ws) /\ Alphabetic(ws[n + g])
           THEN RxWords(pat, k, ws, n, term, g + 1)
           ELSE 0

\* the positions of the non-empty words of s
RECURSIVE WordPos(_, _)
WordPos(s, p) ==
  IF p > Len(s) THEN <<>>
  ELSE (IF s[p] = "" THEN <<>> ELSE <<p>>) \o WordPos(s, p + 1)

\* replace_all_matches without line 221: the text behind the last match is lost
RECURSIVE ReplaceFrom_DropsTail(_, _, _, _, _, _, _)
ReplaceFrom_DropsTail(pat, s, pos, n, cur, term, atWord) ==
  IF n > Len(pos) THEN (IF cur = 1 THEN s ELSE <<>>)
  ELSE LET ws == [x \in DOMAIN pos |-> s[pos[x]]]
           e == IF atWord \/ pos[n] > 1 THEN RxMatch(pat, 1, ws, n, term) ELSE 0
       IN  IF e = 0 THEN ReplaceFrom_DropsTail(pat, s, pos, n + 1, cur, term, atWord)
           ELSE SubSeq(s, cur, pos[n] - 1)
                \o (IF atWord THEN <<"">> ELSE <<>>) \o <<"no">> \o term
                \o ReplaceFrom_DropsTail(pat, s, pos, e + 1, pos[e] + 1, term, atWord)
\* replace_all_matches(regex, expected_term, sentence) from word n on; cur is
\* the first position of s not yet copied.  atWord: the pattern starts at a
\* word (the blank in front of the match stays); otherwise it starts with \s
\* and needs a blank in front of the word.
RECURSIVE ReplaceFrom(_, _, _, _, _, _, _)
ReplaceFrom(pat, s, pos, n, cur, term, atWord) ==
  IF n > Len(pos) THEN SubSeq(s, cur, Len(s))
  ELSE LET ws == [x \in DOMAIN pos |-> s[pos[x]]]
           e == IF atWord \/ pos[n] > 1 THEN RxMatch(pat, 1, ws, n, term) ELSE 0
       IN  IF e = 0 THEN ReplaceFrom(pat, s, pos, n + 1, cur, term, atWord)
           ELSE SubSeq(s, cur, pos[n] - 1)
                \o (IF atWord THEN <<"">> ELSE <<>>) \o <<"no">> \o term
                \o ReplaceFrom(pat, s, pos, e + 1, pos[e] + 1, term, atWord)

replace_all_matches(pat, term, s, atWord) ==
  ReplaceFrom(pat, s, WordPos(s, 1), 1, 1, term, atWord)

\* \s-\s*TERM\b
replace_dash_as_negation(term, s) ==
  replace_all_matches(<<Alt(<<<<"-">>>>), TermEl>>, term, s, FALSE)

W1(w) == <<w>>
str_instructions ==
  <<Alt(<<W1("give"), W1("take"), W1("prescribe"), W1("rx")>>), Words(1),
    Alt(<<W1("for"), <<"in", "case", "of">>, W1("if"), W1("when")>>), TermEl>>
str_if_1 ==
  <<Alt(<<W1("if"), W1("should")>>), Words(0), TermEl, Opt(W1("should")),
    Alt(<<W1("appear"), W1("arise"), W1("begin"), <<"crop", "up">>, W1("commence"),
          <<"come", "to", "light">>, <<"come", "into", "being">>, W1("develop"),
          W1("emanate"), W1("emerge"), W1("ensue"), W1("exhibit"), W1("happen"),
          W1("occur"), W1("originate"), W1("result"), <<"set", "in">>, W1("start"),
          <<"take", "place">>>>)>>
str_if_2 ==
  <<Alt(<<W1("if"), W1("should")>>), Words(0),
    Alt(<<W1("commences"), W1("commence"), W1("develops"), W1("develop"),
          W1("exhibits"), W1("exhibit"), W1("happens"), W1("happen"),
          W1("presents"), W1("present"), <<"results", "in">>, W1("results"),
          <<"result", "in">>, W1("result"), <<"sets", "in">>, <<"set", "in">>,
          W1("starts"), W1("start"), <<"takes", "place">>, <<"take", "place">>>>),
    Words(0), TermEl>>
str_in_case_of ==
  <<Alt(<<<<"in", "case", "of">>, <<"should", "there", "be">>, W1("should"),
          <<"look", "out", "for">>, <<"look", "for">>, <<"watch", "out", "for">>,
          <<"watch", "for">>>>),
    Words(0), TermEl>>

replace_future_occurrence_as_current_negation(term, s) ==
  LET s1 == replace_all_matches(str_instructions, term, s, TRUE)
      s2 == replace_all_matches(str_if_1, term, s1, TRUE)
      s3 == replace_all_matches(str_if_2, term, s2, TRUE)
  IN  replace_all_matches(str_in_case_of, term, s3, TRUE)

\* ------------------------------------------------------------- run_context
\* the try/except around the loop instead of inside run_individual_context:
\* the first exception ends the loop over the categories
RECURSIVE RunCategories_AbortOnException(_, _, _, _)
RunCategories_AbortOnException(sentence_, term_, k_, acc_) ==
  Only({
    IF k > Len(KeyOrder) THEN acc
    ELSE IF KeyOrder[k] \notin DOMAIN acc.tbl
         THEN RunCategories_AbortOnException(sentence, term, k + 1, acc)
         ELSE Only({
                Only({
                  IF r.exc THEN acc1
                  ELSE RunCategories_AbortOnException(sentence, term, k + 1, acc1)
                  : acc1 \in {[tbl |-> [acc.tbl EXCEPT ![KeyOrder[k]] = r.rules],
                               features |-> acc.features \o r.found,
                               exc |-> IF r.exc THEN acc.exc \cup {KeyOrder[k]}
                                       ELSE acc.exc]} })
                : r \in {run_individual_context(sentence, term, KeyOrder[k],
                                                acc.tbl[KeyOrder[k]])} })
    : sentence \in {sentence_}, term \in {term_}, k \in {k_}, acc \in {acc_} })

\* lines 283-286: the categories from the k-th key of the dict on.
\* acc = [tbl |-> all_terms afterwards, features |-> features so far,
\*        exc |-> the keys whose run_individual_context caught an exception]
RECURSIVE RunCategories(_, _, _, _)
RunCategories(sentence_, term_, k_, acc_) ==
  Only({
    IF k > Len(KeyOrder) THEN acc
    ELSE IF KeyOrder[k] \notin DOMAIN acc.tbl
         THEN RunCategories(sentence, term, k + 1, acc)
         ELSE Only({
                RunCategories(sentence, term, k + 1,
                              [tbl |-> [acc.tbl EXCEPT ![KeyOrder[k]] = r.rules],
                               features |-> acc.features \o r.found,
                               exc |-> IF r.exc THEN acc.exc \cup {KeyOrder[k]}
                                       ELSE acc.exc])
                : r \in {run_individual_context(sentence, term, KeyOrder[k],
                                                acc.tbl[KeyOrder[k]])} })
    : sentence \in {sentence_}, term \in {term_}, k \in {k_}, acc \in {acc_} })

\* lines 288-299: the running value of an axis after the features
RECURSIVE FoldAxis(_, _, _)
FoldAxis(features, axis, value) ==
  IF features = <<>> THEN value
  ELSE LET m == feature_map[Head(features).context_type]
       IN  FoldAxis(Tail(features), axis, IF m.axis = axis THEN m.value ELSE value)

ContextResult(term, sentence, features) ==
  [raised |-> FALSE, phrase |-> term, sentence |-> sentence,
   temporality |-> FoldAxis(features, "temporality", "Recent"),
   experiencier |-> FoldAxis(features, "experiencier", "Patient"),
   negex |-> FoldAxis(features, "negex", "Affirmed"),
   feature_list |-> features]

\* the call left by an exception: no ContextResult
Raised(term, sentence) ==
  [raised |-> TRUE, phrase |-> term, sentence |-> sentence,
   temporality |-> "none", experiencier |-> "none", negex |-> "none",
   feature_list |-> <<>>]

\* lines 277-279; re.compile of line 230 raises for an invalid term
Normalize(term, sentence) ==
  replace_future_occurrence_as_current_negation(term,
      replace_dash_as_negation(term, sentence))

\* run_context that hands the normalized sentence to ContextResult
run_context_ReturnsWorkingSentence(tbl_, term_, sentence_) ==
  Only({
    IF ~ValidPattern(term) THEN [res |-> Raised(term, sentence), tbl |-> tbl, exc |-> {}]
    ELSE Only({
           [res |-> ContextResult(term, Normalize(term, sentence), acc.features),
            tbl |-> acc.tbl, exc |-> acc.exc]
           : acc \in {RunCategories(Normalize(term, sentence), term, 1,
                                    [tbl |-> tbl, features |-> <<>>, exc |-> {}])} })
    : tbl \in {tbl_}, term \in {term_}, sentence \in {sentence_} })
\* Context.run_context(expected_term, sentence) on the table tbl:
\* [res |-> the result or the raised call, tbl |-> the table afterwards,
\*  exc |-> the keys whose category caught an exception]
run_context(tbl_, term_, sentence_) ==
  Only({
    IF ~ValidPattern(term) THEN [res |-> Raised(term, sentence), tbl |-> tbl, exc |-> {}]
    ELSE Only({
           [res |-> ContextResult(term, sentence, acc.features), tbl |-> acc.tbl,
            exc |-> acc.exc]
           : acc \in {RunCategories(Normalize(term, sentence), term, 1,
                                    [tbl |-> tbl, features |-> <<>>, exc |-> {}])} })
    : tbl \in {tbl_}, term \in {term_}, sentence \in {sentence_} })

\* ------------------------------------------------------------------ inputs
Rule(text, tag) == [text |-> text, tag |-> tag]
File(lines) == [ok |-> TRUE, lines |-> lines]
Missing == [ok |-> FALSE, lines |-> <<>>]

\* the trigger files data/<name>_triggers.txt, by the key they are loaded under
BaseFiles ==
  [k \in Keys |->
     CASE k = K_negated -> File(<<Rule(<<"no">>, "PREN")>>)
       [] k = K_experiencier -> File(<<Rule(<<"mom">>, "PREN")>>)
       [] k = K_historical -> File(<<Rule(<<"hx">>, "PREN"), Rule(<<"ago">>, "POST")>>)
       [] k = K_hypothetical -> File(<<Rule(<<"if">>, "PREN")>>)]

\* a line without "\t\t[TAG]" in front of the tagged line of the file
Untagged ==
  [k \in Keys |->
     CASE k = K_negated -> File(<<Rule(<<"flu">>, "NONE"), Rule(<<"no">>, "PREN")>>)
       [] k = K_experiencier -> File(<<Rule(<<"flu">>, "NONE"), Rule(<<"mom">>, "PREN")>>)
       [] k = K_historical -> File(<<Rule(<<"flu">>, "NONE"), Rule(<<"hx">>, "PREN")>>)
       [] k = K_hypothetical -> File(<<Rule(<<"flu">>, "NONE"), Rule(<<"if">>, "PREN")>>)]

FileSets ==
  {BaseFiles}
  \cup {[BaseFiles EXCEPT ![k] = Missing] : k \in Keys}
  \cup {[BaseFiles EXCEPT ![k] = Untagged[k]] : k \in Keys}

Terms == {<<"flu">>, <<"(">>}
\* the term "(" is tried on these sentences only
BadTermSentences == {<<"no", "flu">>}

Sentences ==
  { <<"flu">>,
    <<"no", "flu">>,
    <<"mom", "flu">>,
    <<"hx", "flu", "if", "flu">>,
    <<"if", "flu", "hx", "flu">>,
    <<"hx", "flu", "for", "days">>,
    <<"no", "flu", "for", "ago">>,
    <<"mom", "-", "flu">>,
    <<"take", "it", "for", "flu">>,
    <<"if", "flu", "appear">>,
    <<"flu", "for", "the", "past", "3", "weeks">> }

\* a call for a term that no trigger line contains
OtherTermInputs == {<<<<"rash">>, <<"no", "rash">>>>}

Inputs ==
  {<<term, sentence>> \in Terms \X Sentences :
     ValidPattern(term) \/ sentence \in BadTermSentences}
  \cup OtherTermInputs

\* ------------------------------------------------------------------- state
VARIABLES
  files,      \* the trigger files on disk
  all_terms,  \* the module-level dict all_terms
  inited,     \* the module-level flag
  loaded,     \* what context_init put into all_terms (history variable)
  loads,      \* number of load_terms calls so far (history variable)
  contexts,   \* number of Context objects constructed
  call,       \* the last run_context call: its arguments (term, sentence),
              \* what it returned (res), the table it started on (tbl), the
              \* categories that caught an exception (exc) and those that
              \* caught one in the call before (prev); all but res are
              \* history fields
  thr         \* per thread: its position in context_init / run_context and
              \* its local variables

vars == <<files, all_terms, inited, loaded, loads, contexts, call, thr>>

Threads == 1..NumThreads

\* a thread that has not called anything
Idle ==
  [pc |-> "idle",
   i |-> 0,                \* context_init: categories loaded by this thread
   ret |-> [k \in {} |-> <<>>],  \* context_init: the table as returned
   term |-> <<>>, sentence |-> <<>>,   \* run_context: the arguments
   work |-> <<>>,          \* run_context: the normalized sentence
   k |-> 0,                \* run_context: position in self.terms.items()
   x |-> 0,                \* run_individual_context: position of "for rule in rules"
   cells |-> <<>>,         \* run_individual_context: eval_sentence
   n |-> 0,                \* run_individual_context: rule_match
   features |-> <<>>,      \* run_context: features
   start |-> [k \in {} |-> <<>>],  \* the table when the call began (history field)
   sentence_tokens |-> <<>>,  \* run_individual_context: sentence_tokens
   ti |-> 0,               \* run_individual_context: i of the loop over the tokens
   j |-> 0,                \* run_individual_context: j of the scan loops
   break_trigger |-> FALSE,
   matched_phrase |-> <<>>,
   res |-> Raised(<<>>, <<>>)]

NoTable == [k \in {} |-> <<>>]
NoCall ==
  [done |-> FALSE, term |-> <<>>, sentence |-> <<>>, res |-> Raised(<<>>, <<>>),
   tbl |-> NoTable, exc |-> {}, prev |-> {}]

\* load_terms(key): the lines of the file, [] when it cannot be opened
load_terms(key) == IF files[key].ok THEN files[key].lines ELSE <<>>

\* the dict after all_terms[KeyOrder[1..n]] = load_terms(..)
LoadedUpTo(tbl, n) ==
  [k \in DOMAIN tbl \cup {KeyOrder[i] : i \in 1..n} |->
     IF \E i \in 1..n : KeyOrder[i] = k THEN load_terms(k) ELSE tbl[k]]

Init ==
  /\ files \in FileSets
  /\ all_terms = NoTable
  /\ inited = FALSE
  /\ loaded = NoTable
  /\ loads = 0
  /\ contexts = 0
  /\ call = NoCall
  /\ thr = [t \in Threads |-> Idle]

\* Context.__init__: self.terms = context_init()
NewContext ==
  /\ contexts < MaxContexts
  /\ contexts' = contexts + 1
  /\ IF ~inited
     THEN /\ all_terms' = LoadedUpTo(all_terms, Len(KeyOrder))
          /\ loaded' = LoadedUpTo(all_terms, Len(KeyOrder))
          /\ loads' = loads + Len(KeyOrder)
          /\ inited' = TRUE
     ELSE UNCHANGED <<all_terms, loaded, loads, inited>>
  /\ UNCHANGED <<files, call, thr>>

\* the rules a call appends to the historical list
Appended(term, sentence) ==
  IF ValidPattern(term)
  THEN HistoricalExtra(QuoteTarget(Normalize(term, sentence), 1, term))
  ELSE <<>>

\* ctxt.run_context(term, sentence) on a constructed Context
RunContext(term, sentence) ==
  /\ contexts > 0
  /\ Len(all_terms[K_historical]) + Len(Appended(term, sentence)) <= MaxRules
  /\ \E r \in {run_context(all_terms, term, sentence)} :
       /\ all_terms' = r.tbl
       /\ call' = [done |-> TRUE, term |-> term, sentence |-> sentence, res |-> r.res,
                   tbl |-> all_terms, exc |-> r.exc, prev |-> call.exc]
  /\ UNCHANGED <<files, inited, loaded, loads, contexts, thr>>

Next ==
  \/ NewContext
  \/ \E input \in Inputs : RunContext(input[1], input[2])

Spec == Init /\ [][Next]_vars

\* --------------------------------------- context_init called by threads
\* context_init() statement by statement; a thread switch can happen between
\* any two statements (load_terms does file I/O).
InitCall(t) ==
  /\ thr[t].pc = "idle"
  /\ thr' = [thr EXCEPT ![t].pc = "check"]
  /\ UNCHANGED <<files, all_terms, inited, loaded, loads, contexts, call>>

\* line 36: if not inited
InitCheck(t) ==
  /\ thr[t].pc = "check"
  /\ thr' = [thr EXCEPT ![t].pc = IF inited THEN "return" ELSE "load", ![t].i = 0]
  /\ UNCHANGED <<files, all_terms, inited, loaded, loads, contexts, call>>

\* lines 37-40: all_terms[key] = load_terms(name), one category per step
InitLoad(t) ==
  /\ thr[t].pc = "load"
  /\ thr[t].i < Len(KeyOrder)
  /\ LET key == KeyOrder[thr[t].i + 1]
     IN  all_terms' = [k \in DOMAIN all_terms \cup {key} |->
                         IF k = key THEN load_terms(key) ELSE all_terms[k]]
  /\ loads' = loads + 1
  /\ thr' = [thr EXCEPT ![t].i = @ + 1]
  /\ UNCHANGED <<files, inited, loaded, contexts, call>>

\* line 42: inited = True
InitSet(t) ==
  /\ thr[t].pc = "load"
  /\ thr[t].i = Len(KeyOrder)
  /\ inited' = TRUE
  /\ loaded' = all_terms
  /\ thr' = [thr EXCEPT ![t].pc = "return"]
  /\ UNCHANGED <<files, all_terms, loads, contexts, call>>

\* line 43: return all_terms
InitReturn(t) ==
  /\ thr[t].pc = "return"
  /\ thr' = [thr EXCEPT ![t].pc = "done", ![t].ret = all_terms]
  /\ contexts' = contexts + 1
  /\ UNCHANGED <<files, all_terms, inited, loaded, loads, call>>

NextInit ==
  \E t \in Threads :
    \/ InitCall(t)
    \/ InitCheck(t)
    \/ InitLoad(t)
    \/ InitSet(t)
    \/ InitReturn(t)

SpecInit == Init /\ [][NextInit]_vars

\* ---------------------------------------- run_context called by threads
\* run_context() of an initialized module, one step per statement block; the
\* rule lists are the shared lists of all_terms.
RunInputs ==
  { <<<<"flu">>, <<"hx", "flu", "for", "days">>>>,
    <<<<"flu">>, <<"no", "flu", "for", "ago">>>>,
    <<<<"flu">>, <<"hx", "flu", "if", "flu">>>> }

InitRun ==
  /\ files \in {BaseFiles, [BaseFiles EXCEPT ![K_hypothetical] = Untagged[K_hypothetical]]}
  /\ all_terms = LoadedUpTo(NoTable, Len(KeyOrder))
  /\ loaded = all_terms
  /\ inited = TRUE
  /\ loads = Len(KeyOrder)
  /\ contexts = 1
  /\ call = NoCall
  /\ thr = [t \in Threads |-> Idle]

\* lines 277-282
RunBegin(t, term, sentence) ==
  /\ thr[t].pc = "idle"
  /\ thr' = [thr EXCEPT ![t] =
       IF ~ValidPattern(term)
       THEN [@ EXCEPT !.pc = "done", !.term = term, !.sentence = sentence,
                      !.start = all_terms, !.res = Raised(term, sentence)]
       ELSE [@ EXCEPT !.pc = "category", !.term = term, !.sentence = sentence,
                      !.work = Normalize(term, sentence), !.k = 1,
                      !.features = <<>>, !.start = all_terms]]
  /\ UNCHANGED <<files, all_terms, inited, loaded, loads, contexts, call>>

\* line 283 and lines 111-131: the next category; the append and the sort
\* act on the shared list
RunEnterCategory(t) ==
  /\ thr[t].pc = "category"
  /\ thr[t].k <= Len(KeyOrder)
  /\ \E key \in {KeyOrder[thr[t].k]} :
     \E cells \in {QuoteTarget(thr[t].work, 1, thr[t].term)} :
     \E grown \in {IF key = K_historical
                   THEN all_terms[key] \o HistoricalExtra(cells)
                   ELSE all_terms[key]} :
       /\ Len(grown) <= MaxRules
       /\ all_terms' = [all_terms EXCEPT ![key] = SortRules(grown)]
       /\ thr' = [thr EXCEPT ![t].pc = "rules", ![t].cells = cells,
                             ![t].x = 1, ![t].n = 0]
  /\ UNCHANGED <<files, inited, loaded, loads, contexts, call>>

\* lines 132-154 for the rule the list iterator yields, or lines 156-205 when
\* the iterator is exhausted
RunRuleStep(t) ==
  /\ thr[t].pc = "rules"
  /\ LET key == KeyOrder[thr[t].k]
         rules == all_terms[key]
     IN  IF thr[t].x > Len(rules)
         THEN thr' = [thr EXCEPT
                ![t].pc = "category", ![t].k = @ + 1,
                ![t].features = IF thr[t].n > 0
                                THEN @ \o ScanSentence(thr[t].cells, thr[t].term, key)
                                ELSE @]
         ELSE \E r \in {ApplyRule(thr[t].cells, 1, rules[thr[t].x], thr[t].n)} :
                IF r.exc
                THEN thr' = [thr EXCEPT ![t].pc = "category", ![t].k = @ + 1]
                ELSE thr' = [thr EXCEPT ![t].cells = r.cells, ![t].n = r.n,
                                        ![t].x = @ + 1]
  /\ UNCHANGED <<files, all_terms, inited, loaded, loads, contexts, call>>

\* lines 288-301
RunFinish(t) ==
  /\ thr[t].pc = "category"
  /\ thr[t].k > Len(KeyOrder)
  /\ thr' = [thr EXCEPT ![t].pc = "done",
                        ![t].res = ContextResult(thr[t].term, thr[t].sentence,
                                                 thr[t].features)]
  /\ UNCHANGED <<files, all_terms, inited, loaded, loads, contexts, call>>

NextRun ==
  \E t \in Threads :
    \/ \E input \in RunInputs : RunBegin(t, input[1], input[2])
    \/ RunEnterCategory(t)
    \/ RunRuleStep(t)
    \/ RunFinish(t)

SpecRun == InitRun /\ [][NextRun]_vars

\* sentence_tokens of line 160 for a call of run_context(term, sentence)
\* whose category key holds the rule list rules; no tokens when the tagging
\* raised or no rule matched (line 156)
TaggedTokens(term, sentence, key, rules) ==
  LET cells == QuoteTarget(Normalize(term, sentence), 1, term)
      grown == IF key = K_historical THEN rules \o HistoricalExtra(cells) ELSE rules
      tagged == ApplyRules(cells, SortRules(grown), 1, 0)
  IN  IF tagged.exc \/ tagged.n = 0 THEN <<>> ELSE Tokens(Unglue(tagged.cells))

\* ------------------------------------------- run_context on scan sentences
\* One run_context call of an initialized module on a sentence in which a
\* trigger and the term stand a chosen number of tokens apart.
ScanFiles ==
  [BaseFiles EXCEPT
     ![K_negated] = File(<<Rule(<<"no">>, "PREN"), Rule(<<"but">>, "CONJ")>>),
     ![K_experiencier] = File(<<Rule(<<"mom">>, "PREN"), Rule(<<"his", "mom">>, "PREN")>>)]

\* n tokens that are neither a trigger nor the term
Filler(n) == [x \in 1..n |-> "x"]

\* pad, trigger, d - 1 tokens, term, tail
ForwardSentences ==
  {Filler(p) \o <<trig>> \o Filler(d - 1) \o <<"flu">> \o Filler(t) :
     trig \in {"no", "mom", "hx", "if"}, p \in 0..MaxPad, d \in 1..MaxDist, t \in 0..MaxTail}
\* pad, "no", a tokens, "but", b tokens, term, tail
StopSentences ==
  {Filler(p) \o <<"no">> \o Filler(a) \o <<"but">> \o Filler(b) \o <<"flu">> \o Filler(t) :
     p \in 0..MaxPad, a \in 0..1, b \in 0..1, t \in 0..MaxTail}
\* pad, term, d - 1 tokens, "ago", tail
BackwardSentences ==
  {Filler(p) \o <<"flu">> \o Filler(d - 1) \o <<"ago">> \o Filler(t) :
     p \in 0..MaxPad, d \in 1..MaxDist, t \in 0..MaxTail}
\* pad, "no", term, a tokens, "but", b tokens, term, tail
RepeatSentences ==
  {Filler(p) \o <<"no", "flu">> \o Filler(a) \o <<"but">> \o Filler(b) \o <<"flu">> \o Filler(t) :
     p \in 0..MaxPad, a \in 0..1, b \in 0..1, t \in 0..MaxTail}
\* pad, "no", a tokens, "no", term, tail and pad, "ago", "hx", term, tail
TwoTagSentences ==
  {Filler(p) \o <<"no">> \o Filler(a) \o <<"no", "flu">> \o Filler(t) :
     p \in 0..MaxPad, a \in 0..1, t \in 0..MaxTail}
  \cup {Filler(p) \o <<"ago", "hx", "flu">> \o Filler(t) : p \in 0..MaxPad, t \in 0..MaxTail}
\* pad, "but", b tokens, term, tail and pad, term, b tokens, "but", tail
StopOnlySentences ==
  {Filler(p) \o <<"but">> \o Filler(b) \o <<"flu">> \o Filler(t) :
     p \in 0..MaxPad, b \in 0..1, t \in 0..MaxTail}
  \cup {Filler(p) \o <<"flu">> \o Filler(b) \o <<"but">> \o Filler(t) :
          p \in 0..MaxPad, b \in 0..1, t \in 0..MaxTail}
\* pad, "his", "mom", d - 1 tokens, term, tail
PhraseTriggerSentences ==
  {Filler(p) \o <<"his", "mom">> \o Filler(d - 1) \o <<"flu">> \o Filler(t) :
     p \in 0..MaxPad, d \in 1..MaxDist, t \in 0..MaxTail}
\* the sentences of the four future/conditional patterns of lines 233-267 with
\* g words in the gap of the pattern
InstructiveSentence(p, g, t) ==
  Filler(p) \o <<"take">> \o Filler(g) \o <<"for", "flu">> \o Filler(t)
IfSentence(p, g, t) ==
  Filler(p) \o <<"if">> \o Filler(g) \o <<"flu", "appear">> \o Filler(t)
IfVerbSentence(p, g, t) ==
  Filler(p) \o <<"if">> \o Filler(g) \o <<"develops", "flu">> \o Filler(t)
InCaseOfSentence(p, g, t) ==
  Filler(p) \o <<"watch", "for">> \o Filler(g) \o <<"flu">> \o Filler(t)
\* pad, dash, term, tail: the pattern of lines 226-231
DashSentence(p, t) == Filler(p) \o <<"-", "flu">> \o Filler(t)
RewriteSentences ==
  UNION {{InstructiveSentence(p, g, t), IfSentence(p, g, t), IfVerbSentence(p, g, t),
          InCaseOfSentence(p, g, t), DashSentence(p, t)} :
           p \in 0..MaxPad, g \in 0..MaxGap, t \in 0..MaxTail}
ScanSentences ==
  ForwardSentences \cup StopSentences \cup BackwardSentences \cup RepeatSentences
    \cup TwoTagSentences \cup StopOnlySentences \cup PhraseTriggerSentences
    \cup RewriteSentences
\* a term of two words: pad, "bad", "flu", d - 1 tokens, "ago", tail
PhraseTermInputs ==
  {<<<<"bad", "flu">>,
     Filler(p) \o <<"bad", "flu">> \o Filler(d - 1) \o <<"ago">> \o Filler(t)>> :
     p \in 0..MaxPad, d \in 1..MaxDist, t \in 0..MaxTail}
ScanInputs == {<<<<"flu">>, sentence>> : sentence \in ScanSentences} \cup PhraseTermInputs

InitScan ==
  /\ files = ScanFiles
  /\ all_terms = LoadedUpTo(NoTable, Len(KeyOrder))
  /\ loaded = all_terms
  /\ inited = TRUE
  /\ loads = Len(KeyOrder)
  /\ contexts = 1
  /\ call \in {[NoCall EXCEPT !.term = input[1], !.sentence = input[2]] :
                input \in ScanInputs}
  /\ thr = [t \in Threads |-> Idle]

\* the call whose arguments were chosen
ScanCall ==
  /\ ~call.done
  /\ RunContext(call.term, call.sentence)

NextScan == ScanCall

SpecScan == InitScan /\ [][NextScan]_vars


\* ------------------------------------- run_context, one step per iteration
\* One run_context call of an initialized module by one thread, with one step
\* for each iteration of the loop over the rules (lines 132-154), of the
\* loop over the tokens (line 165) and of the two scan loops (lines 169-183
\* and 186-200).
LoopInputs == {input \in ScanInputs : Len(input[2]) <= MaxLoopLen}

InitLoop ==
  /\ files \in {ScanFiles, [ScanFiles EXCEPT ![K_hypothetical] = Untagged[K_hypothetical]]}
  /\ all_terms = LoadedUpTo(NoTable, Len(KeyOrder))
  /\ loaded = all_terms
  /\ inited = TRUE
  /\ loads = Len(KeyOrder)
  /\ contexts = 1
  /\ call \in {[NoCall EXCEPT !.term = input[1], !.sentence = input[2]] :
                input \in LoopInputs}
  /\ thr = [t \in Threads |-> Idle]

\* the call whose arguments were chosen, by thread 1
LoopBegin(t) ==
  /\ t = 1
  /\ RunBegin(t, call.term, call.sentence)

\* lines 132-154 for the next rule of the list, or lines 156-163 behind the loop
LoopRuleStep(t) ==
  /\ thr[t].pc = "rules"
  /\ LET key == KeyOrder[thr[t].k]
         rules == all_terms[key]
     IN  IF thr[t].x > Len(rules)
         THEN IF thr[t].n > 0
              THEN thr' = [thr EXCEPT ![t].pc = "tokens",
                                      ![t].sentence_tokens = Tokens(Unglue(thr[t].cells)),
                                      ![t].ti = 0, ![t].matched_phrase = <<>>]
              ELSE thr' = [thr EXCEPT ![t].pc = "category", ![t].k = @ + 1]
         ELSE \E r \in {ApplyRule(thr[t].cells, 1, rules[thr[t].x], thr[t].n)} :
                IF r.exc
                THEN thr' = [thr EXCEPT ![t].pc = "category", ![t].k = @ + 1]
                ELSE thr' = [thr EXCEPT ![t].cells = r.cells, ![t].n = r.n,
                                        ![t].x = @ + 1]
  /\ UNCHANGED <<files, all_terms, inited, loaded, loads, contexts, call>>

\* lines 165-168: the next token; a forward scan when it opens one
LoopToken(t) ==
  /\ thr[t].pc = "tokens"
  /\ LET toks == thr[t].sentence_tokens
         i == thr[t].ti
     IN  IF i >= Len(toks)
         THEN thr' = [thr EXCEPT ![t].pc = "category", ![t].k = @ + 1]
         ELSE IF Starts(toks[i + 1], FwdTags)
              THEN thr' = [thr EXCEPT ![t].pc = "forward", ![t].j = i + 1,
                                      ![t].break_trigger = FALSE]
              ELSE thr' = [thr EXCEPT ![t].pc = "behind"]
  /\ UNCHANGED <<files, all_terms, inited, loaded, loads, contexts, call>>

\* lines 169-183: one test of the while condition and one iteration
LoopForward(t) ==
  /\ thr[t].pc = "forward"
  /\ LET toks == thr[t].sentence_tokens
         j == thr[t].j
         key == KeyOrder[thr[t].k]
     IN  IF j >= Len(toks)
         THEN thr' = [thr EXCEPT ![t].pc = "behind"]
         ELSE LET mp1 == Append(thr[t].matched_phrase, Item(toks[j + 1], TRUE))
                  bt1 == \/ thr[t].break_trigger
                         \/ j >= Len(toks) - 1
                         \/ j > windows[key]
                         \/ stop_trigger(toks[j + 1])
                  hit == bt1 /\ PhraseMatch(thr[t].term, mp1)
              IN  thr' = [thr EXCEPT
                    ![t].j = j + 1,
                    ![t].break_trigger = IF hit THEN FALSE ELSE bt1,
                    ![t].matched_phrase = IF hit THEN <<>> ELSE mp1,
                    ![t].features =
                       IF hit THEN Append(@, ContextFeature(mp1, Unglue(thr[t].cells), key))
                       ELSE @]
  /\ UNCHANGED <<files, all_terms, inited, loaded, loads, contexts, call>>

\* lines 185-186: behind the forward scan of token i, a backward scan when
\* the token opens one, the next token otherwise
LoopBehind(t) ==
  /\ thr[t].pc = "behind"
  /\ IF Starts(thr[t].sentence_tokens[thr[t].ti + 1], BwdTags)
     THEN thr' = [thr EXCEPT ![t].pc = "backward", ![t].j = thr[t].ti - 1,
                             ![t].break_trigger = FALSE]
     ELSE thr' = [thr EXCEPT ![t].pc = "tokens", ![t].ti = @ + 1]
  /\ UNCHANGED <<files, all_terms, inited, loaded, loads, contexts, call>>

\* a backward scan whose iteration leaves out "j -= 1" of line 200
LoopBackward_NoDecrement(t) ==
  /\ thr[t].pc = "backward"
  /\ LET toks == thr[t].sentence_tokens
         j == thr[t].j
         key == KeyOrder[thr[t].k]
     IN  IF j < 0
         THEN thr' = [thr EXCEPT ![t].pc = "tokens", ![t].ti = @ + 1]
         ELSE LET mp1 == <<Item(toks[j + 1], FALSE)>>
                  bt1 == \/ thr[t].break_trigger
                         \/ j = 0
                         \/ j < thr[t].ti - negative_window
                         \/ stop_trigger(toks[j + 1])
                  hit == bt1 /\ PhraseMatch(thr[t].term, mp1)
              IN  thr' = [thr EXCEPT
                    ![t].break_trigger = IF hit THEN FALSE ELSE bt1,
                    ![t].matched_phrase = IF hit THEN <<>> ELSE mp1,
                    ![t].features =
                       IF hit THEN Append(@, ContextFeature(mp1, Unglue(thr[t].cells), key))
                       ELSE @]
  /\ UNCHANGED <<files, all_terms, inited, loaded, loads, contexts, call>>
\* lines 186-200: one test of the while condition and one iteration
LoopBackward(t) ==
  /\ thr[t].pc = "backward"
  /\ LET toks == thr[t].sentence_tokens
         j == thr[t].j
         key == KeyOrder[thr[t].k]
     IN  IF j < 0
         THEN thr' = [thr EXCEPT ![t].pc = "tokens", ![t].ti = @ + 1]
         ELSE LET mp1 == <<Item(toks[j + 1], FALSE)>>
                  bt1 == \/ thr[t].break_trigger
                         \/ j = 0
                         \/ j < thr[t].ti - negative_window
                         \/ stop_trigger(toks[j + 1])
                  hit == bt1 /\ PhraseMatch(thr[t].term, mp1)
              IN  thr' = [thr EXCEPT
                    ![t].j = j - 1,
                    ![t].break_trigger = IF hit THEN FALSE ELSE bt1,
                    ![t].matched_phrase = IF hit THEN <<>> ELSE mp1,
                    ![t].features =
                       IF hit THEN Append(@, ContextFeature(mp1, Unglue(thr[t].cells), key))
                       ELSE @]
  /\ UNCHANGED <<files, all_terms, inited, loaded, loads, contexts, call>>

\* a statement of a call that began
LoopStatement(t) ==
  \/ RunEnterCategory(t)
  \/ LoopRuleStep(t)
  \/ LoopToken(t)
  \/ LoopForward(t)
  \/ LoopBehind(t)
  \/ LoopBackward(t)
  \/ RunFinish(t)

NextLoop ==
  \E t \in Threads :
    \/ LoopBegin(t)
    \/ LoopStatement(t)

SpecLoop == InitLoop /\ [][NextLoop]_vars

\* the interpreter goes on executing a call that began: its next statement
\* is executed; whether the call is made is the caller's choice
SpecLoopFair == SpecLoop /\ WF_vars(\E t \in Threads : LoopStatement(t))

\* ------------------------------------------------------------------ claims
Returned == call.done /\ ~call.res.raised
HasFeature(res, key) ==
  \E i \in DOMAIN res.feature_list : res.feature_list[i].context_type = key
Axes(res) == <<res.temporality, res.experiencier, res.negex>>
FeaturesNotOf(res, key) ==
  LET Other(f) == f.context_type # key IN SelectSeq(res.feature_list, Other)

\* C1: for every term and every sentence run_context returns a ContextResult
\* and never raises an exception.
C1_NeverRaises == call.done => ~call.res.raised

\* C2: an axis has its default unless a feature of a category mapped to that
\* axis was emitted: negation is Affirmed without a 'negated' feature,
\* experiencer is Patient without an 'experiencier' feature, temporality is
\* Recent without a 'historical' and without a 'hypothetical' feature; a call
\* that emits no feature returns (Recent, Patient, Affirmed).
C2_DefaultAxes ==
  Returned =>
    /\ ~HasFeature(call.res, "negated") => call.res.negex = "Affirmed"
    /\ ~HasFeature(call.res, "experiencier") => call.res.experiencier = "Patient"
    /\ (~HasFeature(call.res, "historical") /\ ~HasFeature(call.res, "hypothetical"))
         => call.res.temporality = "Recent"
    /\ call.res.feature_list = <<>> => Axes(call.res) = <<"Recent", "Patient", "Affirmed">>
\* a call that emitted an experiencier feature and nothing else: the negation
\* and the temporality axis are at their defaults
C2_Witness ==
  /\ Returned
  /\ HasFeature(call.res, "experiencier")
  /\ ~HasFeature(call.res, "negated")
  /\ ~HasFeature(call.res, "historical") /\ ~HasFeature(call.res, "hypothetical")
  /\ Axes(call.res) = <<"Recent", "Other", "Affirmed">>

\* C3: the features are folded in the category order negated, experiencier,
\* historical, hypothetical and the last feature of an axis wins: with a
\* hypothetical feature the temporality is Hypothetical, also when historical
\* features were emitted; it is Historical exactly when historical features
\* exist and no hypothetical feature does.
CategoryRank(key) ==
  CASE key = "negated" -> 1 [] key = "experiencier" -> 2
    [] key = "historical" -> 3 [] key = "hypothetical" -> 4
C3_LastFeatureWins ==
  Returned =>
    /\ \A i, j \in DOMAIN call.res.feature_list :
         i < j => CategoryRank(call.res.feature_list[i].context_type)
                    <= CategoryRank(call.res.feature_list[j].context_type)
    /\ HasFeature(call.res, "hypothetical") => call.res.temporality = "Hypothetical"
    /\ call.res.temporality = "Historical"
         <=> (HasFeature(call.res, "historical") /\ ~HasFeature(call.res, "hypothetical"))
\* a call that emitted a historical and a hypothetical feature
C3_Witness ==
  /\ Returned
  /\ HasFeature(call.res, "historical")
  /\ HasFeature(call.res, "hypothetical")
  /\ call.res.temporality = "Hypothetical"

\* C4: two consecutive run_context calls with the same term and the same
\* sentence return the same axes and the same list of features.
C4_Idempotent ==
  [][(/\ call.done /\ call'.done
      /\ call'.res.phrase = call.res.phrase
      /\ call'.res.sentence = call.res.sentence)
     => call'.res = call.res]_vars

\* C5: the axes a call returns depend on (term, sentence, loaded trigger
\* lists) only, not on the run_context calls made before it.
C5_PureFunction ==
  Returned =>
    Axes(call.res) = Axes(run_context(loaded, call.res.phrase, call.res.sentence).res)

\* C6: after any sequence of run_context calls each rule list holds exactly
\* the rules context_init loaded, in the same order.
C6_RepositoryUnchanged == inited => all_terms = loaded

\* C9: when load_terms fails for a category, context_init stores an empty
\* list for it and loads the other categories; a later run_context completes
\* and leaves at its default any axis only the failed category could change.
C9_LoadFailure ==
  /\ inited => \A k \in Keys :
                 /\ k \in DOMAIN loaded
                 /\ loaded[k] = IF files[k].ok THEN files[k].lines ELSE <<>>
  /\ (call.done /\ \E k \in Keys : ~files[k].ok) =>
       /\ ~call.res.raised
       /\ ~files[K_negated].ok => call.res.negex = "Affirmed"
       /\ ~files[K_experiencier].ok => call.res.experiencier = "Patient"

\* C10: when a category catches an exception during a call, the features and
\* the axis values the other categories contribute to that call are those of
\* the same call on a table in which the failing category has no rules.
C10_CategoryIsolation ==
  Returned =>
    \A key \in call.exc :
      LET ref == run_context([call.tbl EXCEPT ![key] = <<>>],
                             call.res.phrase, call.res.sentence).res
      IN  /\ FeaturesNotOf(call.res, key) = FeaturesNotOf(ref, key)
          /\ \A axis \in {"temporality", "experiencier", "negex"} :
               FoldAxis(FeaturesNotOf(call.res, key), axis, "default")
                 = FoldAxis(FeaturesNotOf(ref, key), axis, "default")
\* a call in which the first category caught an exception and a later
\* category emitted a feature
C10_Witness ==
  /\ Returned
  /\ K_negated \in call.exc
  /\ HasFeature(call.res, "hypothetical")

\* C7: when context_init is invoked by several threads before the
\* initialization has completed, the four load_terms calls are executed once
\* in total and every caller receives the fully populated table.
C7_LoadedOnce ==
  /\ loads <= Len(KeyOrder)
  /\ \A t \in Threads :
       thr[t].pc = "done" =>
         /\ DOMAIN thr[t].ret = Keys
         /\ \A k \in Keys : thr[t].ret[k] = load_terms(k)

\* C8: concurrent run_context calls do not interfere: each call returns the
\* axes and the features it returns when it runs alone on the table it
\* started on, and no rule list changes while a call is iterating it.
Iterating(t, key) == thr[t].pc = "rules" /\ KeyOrder[thr[t].k] = key
ReturnsAsAlone ==
  \A t \in Threads :
    thr[t].pc = "done" =>
      thr[t].res = run_context(thr[t].start, thr[t].term, thr[t].sentence).res
C8_NoInterference ==
  /\ []ReturnsAsAlone
  /\ [][\A t \in Threads, key \in Keys :
          Iterating(t, key) => all_terms'[key] = all_terms[key]]_vars

\* C11: a category that catches an exception during a call contributes no
\* feature to that call, and the failure does not outlast the call: in the
\* next call the category returns what run_individual_context finds for the
\* new arguments on the category's rule list.
FeaturesOf(res, key) ==
  LET Same(f) == f.context_type = key IN SelectSeq(res.feature_list, Same)
C11_FailureIsLocal ==
  Returned =>
    /\ \A key \in call.exc : ~HasFeature(call.res, key)
    /\ \A key \in call.prev \ call.exc :
         FeaturesOf(call.res, key)
           = run_individual_context(Normalize(call.term, call.sentence), call.term,
                                    key, call.tbl[key]).found
\* the negation category raised in the call before and emits a feature now
C11_Witness ==
  /\ Returned
  /\ K_negated \in call.prev
  /\ K_negated \notin call.exc
  /\ HasFeature(call.res, K_negated)

\* C12: the sentence of the returned ContextResult is the sentence the caller
\* passed, also when the normalizer rewrote the working sentence and tags
\* were spliced into it; the term of the result is the caller's term.
C12_OriginalSentence ==
  Returned =>
    /\ call.res.sentence = call.sentence
    /\ call.res.phrase = call.term
\* a call whose working sentence was rewritten and then tagged and scanned
C12_Witness ==
  /\ Returned
  /\ Normalize(call.term, call.sentence) # call.sentence
  /\ call.res.feature_list # <<>>
  /\ call.res.sentence = call.sentence

\* ---- claims about the scan; a token index is its position in sentence_tokens
\* the tokens of the last call in category key
CallTokens(key) == TaggedTokens(call.term, call.sentence, key, call.tbl[key])
\* the token is the quoted one-word target
IsTarget(c) == c.qo /\ c.qc /\ <<c.w>> = call.term
\* no token strictly between positions a and b opens a stop tag
NoStopBetween(toks, a, b) == \A q \in (a + 1)..(b - 1) : ~stop_trigger(toks[q])
\* position i carries the only tag of the sentence
OnlyTagAt(toks, i) == \A q \in DOMAIN toks : (toks[q].pre # <<>>) <=> (q = i)

Rewritten == Normalize(call.term, call.sentence) # call.sentence
NoIsPreScope ==
  \E x \in DOMAIN call.tbl[K_negated] : call.tbl[K_negated][x] = Rule(<<"no">>, "PREN")
C14_RewriteNegates ==
  Returned => ((Rewritten /\ NoIsPreScope) => call.res.negex = "Negated")

\* C15: a trigger line without "\t\t[TAG]" whose phrase matches the sentence
\* does not make the tagging fail: the category catches no exception and the
\* tagged rules of the category still produce their features.
UntaggedMatch(key) ==
  LET cells == QuoteTarget(Normalize(call.term, call.sentence), 1, call.term)
  IN  \E x \in DOMAIN call.tbl[key] :
        /\ call.tbl[key][x].tag = "NONE"
        /\ \E p \in DOMAIN cells : RuleAt(cells, p, call.tbl[key][x].text)
TaggedOnly(rules) == LET HasTag(r) == r.tag # "NONE" IN SelectSeq(rules, HasTag)
C15_UntaggedLineTagged ==
  Returned =>
    \A key \in DOMAIN call.tbl :
      UntaggedMatch(key) =>
        /\ key \notin call.exc
        /\ run_individual_context(Normalize(call.term, call.sentence), call.term, key,
                                  TaggedOnly(call.tbl[key])).found # <<>>
             => HasFeature(call.res, key)

\* some token is the target
HasTarget(toks) == \E p \in DOMAIN toks : IsTarget(toks[p])
\* the matched_phrase of the features of category key, in order
Phrases(res, key) ==
  [x \in DOMAIN FeaturesOf(res, key) |-> FeaturesOf(res, key)[x].matched_phrase]

\* C16: in a sentence whose only tag is one pre-scope tag, a target more than
\* W + 1 tokens behind the tag (W the forward window of the category)
\* produces no feature of that category, wherever the sentence ends.
C16_ForwardWindowBounded ==
  Returned =>
    \A key \in DOMAIN call.tbl :
      LET toks == CallTokens(key)
      IN  \A i \in DOMAIN toks :
            (/\ Starts(toks[i], {"PREN"})
             /\ OnlyTagAt(toks, i)
             /\ HasTarget(toks)
             /\ \A p \in DOMAIN toks : IsTarget(toks[p]) => p - i > windows[key] + 1)
            => ~HasFeature(call.res, key)

\* C17: the window limit of a forward scan counts the tokens behind the
\* pre-scope tag: one more untagged token in front of the sentence changes
\* neither the number of features of the category nor their matched_phrase.
C17_WindowCountsFromTag ==
  Returned =>
    \A key \in DOMAIN call.tbl :
      LET toks == CallTokens(key)
      IN  (\E i \in DOMAIN toks : Starts(toks[i], {"PREN"}) /\ OnlyTagAt(toks, i))
          => Phrases(run_context(call.tbl, call.term, Filler(1) \o call.sentence).res, key)
               = Phrases(call.res, key)

\* C18: a stop tag ends a forward scan: when every target stands behind a
\* stop-tagged token that follows the only pre-scope tag, the category
\* emits no feature.
C18_StopTagEndsScan ==
  Returned =>
    \A key \in DOMAIN call.tbl :
      LET toks == CallTokens(key)
      IN  \A i, q \in DOMAIN toks :
            (/\ Starts(toks[i], {"PREN"})
             /\ \A r \in DOMAIN toks \ {i} : ~Starts(toks[r], FwdTags \cup BwdTags)
             /\ i < q /\ stop_trigger(toks[q])
             /\ HasTarget(toks)
             /\ \A p \in DOMAIN toks : IsTarget(toks[p]) => p > q)
            => ~HasFeature(call.res, key)

\* C19: in the backward scan from a post-scope tag at index i every step
\* tests its token: a target at an index from i-1 down to i-4, with no stop
\* tag between it and the tag, produces a feature of the category.
C19_BackwardStepTests ==
  Returned =>
    \A key \in DOMAIN call.tbl :
      LET toks == CallTokens(key)
      IN  \A i, p \in DOMAIN toks :
            (/\ Starts(toks[i], BwdTags)
             /\ IsTarget(toks[p])
             /\ p < i /\ i - p <= negative_window
             /\ NoStopBetween(toks, p, i))
            => HasFeature(call.res, key)

\* C20: in a sentence whose only tag is one post-scope tag at index i, a
\* target at an index below i-5 produces no feature of the category.
C20_BackwardWindowBounded ==
  Returned =>
    \A key \in DOMAIN call.tbl :
      LET toks == CallTokens(key)
      IN  \A i \in DOMAIN toks :
            (/\ Starts(toks[i], {"POST"})
             /\ OnlyTagAt(toks, i)
             /\ HasTarget(toks)
             /\ \A p \in DOMAIN toks : IsTarget(toks[p]) => p < i - (negative_window + 1))
            => ~HasFeature(call.res, key)

\* C21: one pre-scope tag can emit several features.  In a sentence whose
\* only scan-starting tag is one pre-scope tag, the matched_phrase of the
\* features of the category are consecutive runs of the tokens behind the
\* tag: the first starts right behind the tag, each next one right behind
\* the one before, so no token position is in two of them; each holds an
\* occurrence of the target, and once a feature was emitted no occurrence of
\* the target behind the tag is left outside the features.
PhraseCells(mp) == [x \in DOMAIN mp |-> mp[x].c]
RECURSIVE Concat(_)
Concat(ss) == IF ss = <<>> THEN <<>> ELSE Head(ss) \o Concat(Tail(ss))
OnlyOpenerAt(toks, i) ==
  \A q \in DOMAIN toks : Starts(toks[q], {"PREN", "POST", "FSTT", "ONEW"}) <=> (q = i)
PhraseLen(rule) == SumLen(rule.text) + Len(rule.text) - 1
\* the working sentence of the last call in category key after the tagging
CallCells(key) ==
  LET cells == QuoteTarget(Normalize(call.term, call.sentence), 1, call.term)
      grown == IF key = K_historical THEN call.tbl[key] \o HistoricalExtra(cells)
               ELSE call.tbl[key]
  IN  ApplyRules(cells, SortRules(grown), 1, 0)
C22_LongestPhraseFirst ==
  Returned =>
    \A key \in DOMAIN call.tbl :
      /\ \A x, y \in DOMAIN all_terms[key] :
           x < y => PhraseLen(all_terms[key][x]) >= PhraseLen(all_terms[key][y])
      /\ LET tagged == CallCells(key)
         IN  ~tagged.exc =>
               \A x \in DOMAIN tagged.cells :
                 tagged.cells[x].glue =>
                   /\ x < Len(tagged.cells)
                   /\ tagged.cells[x].post = <<>>
                   /\ tagged.cells[x + 1].pre = <<>>

\* C23: a matched multi-word trigger phrase is one token of sentence_tokens:
\* every token that opens a tag also closes it, and no word of a trigger
\* phrase is a candidate token in the matched_phrase of a feature.
C23_TriggerPhraseIsOneToken ==
  Returned =>
    \A key \in DOMAIN call.tbl :
      /\ \A q \in DOMAIN CallTokens(key) :
           CallTokens(key)[q].pre # <<>> => CallTokens(key)[q].post # <<>>
      /\ \A x \in DOMAIN Phrases(call.res, key) :
           \A c \in DOMAIN Phrases(call.res, key)[x] :
             LET cell == Phrases(call.res, key)[x][c].c
             IN  cell.post # <<>> => cell.pre # <<>>

\* C24: each normalizer rewrite changes only its matched spans.  For each of
\* the five rewrites in turn: without a match its output is its input; with
\* a match the text in front of the first match is copied, the match becomes
\* ' no ' + term, and when no further match follows, the text behind the
\* match is copied too.  The output of the last rewrite is the normalized
\* sentence, so without any match it is the sentence passed.
Rewrites ==
  <<[pat |-> <<Alt(<<<<"-">>>>), TermEl>>, atWord |-> FALSE],
    [pat |-> str_instructions, atWord |-> TRUE],
    [pat |-> str_if_1, atWord |-> TRUE],
    [pat |-> str_if_2, atWord |-> TRUE],
    [pat |-> str_in_case_of, atWord |-> TRUE]>>
\* the sentence after the first k rewrites
RECURSIVE Stage(_)
Stage(k) ==
  IF k = 0 THEN call.sentence
  ELSE replace_all_matches(Rewrites[k].pat, call.term, Stage(k - 1), Rewrites[k].atWord)
\* the words of sentence in at which rewrite rw matches
MatchStarts(rw, in) ==
  LET pos == WordPos(in, 1)
      ws == [x \in DOMAIN pos |-> in[pos[x]]]
  IN  {n \in DOMAIN pos : (rw.atWord \/ pos[n] > 1) /\ RxMatch(rw.pat, 1, ws, n, call.term) # 0}
OnlySpans(rw, in, out) ==
  LET pos == WordPos(in, 1)
      ws == [x \in DOMAIN pos |-> in[pos[x]]]
      M == MatchStarts(rw, in)
  IN  IF M = {} THEN out = in
      ELSE LET a == CHOOSE n \in M : \A m \in M : n <= m
               e == RxMatch(rw.pat, 1, ws, a, call.term)
               new == (IF rw.atWord THEN <<"">> ELSE <<>>) \o <<"no">> \o call.term
           IN  /\ Len(out) >= pos[a] - 1 + Len(new)
               /\ SubSeq(out, 1, pos[a] - 1) = SubSeq(in, 1, pos[a] - 1)
               /\ SubSeq(out, pos[a], pos[a] - 1 + Len(new)) = new
               /\ (\A m \in M : m <= e) =>
                    out = SubSeq(in, 1, pos[a] - 1) \o new \o SubSeq(in, pos[e] + 1, Len(in))
C24_OnlyMatchedSpans ==
  call.done =>
    /\ \A k \in DOMAIN Rewrites : OnlySpans(Rewrites[k], Stage(k - 1), Stage(k))
    /\ Stage(Len(Rewrites)) = Normalize(call.term, call.sentence)
    /\ (\A k \in DOMAIN Rewrites : MatchStarts(Rewrites[k], call.sentence) = {})
         => Normalize(call.term, call.sentence) = call.sentence
\* a rewrite matched in the middle of the sentence: text in front of the
\* match and text behind it
C24_Witness ==
  /\ call.done
  /\ \E k \in DOMAIN Rewrites :
       LET in == Stage(k - 1)
           pos == WordPos(in, 1)
           ws == [x \in DOMAIN pos |-> in[pos[x]]]
       IN  \E n \in MatchStarts(Rewrites[k], in) :
             /\ n > 1
             /\ RxMatch(Rewrites[k].pat, 1, ws, n, call.term) < Len(pos)
             /\ Stage(k) # in

\* C25: the instructive rewrite fires for every number of words from 0 to 5
\* between the verb and the connective and does not fire for more than 5;
\* the same bound holds for the word gap of the other three future and
\* conditional rewrites.
C25_GapZeroToFive ==
  call.done =>
    \A p \in 0..MaxPad, g \in 0..MaxGap, t \in 0..MaxTail :
      call.sentence \in {InstructiveSentence(p, g, t), IfSentence(p, g, t),
                          IfVerbSentence(p, g, t), InCaseOfSentence(p, g, t)}
        => (Rewritten <=> g <= 5)

\* C26: every run_context call terminates.  A call that began returns;
\* each iteration of the forward scan moves the index up by one and never
\* beyond the end of the sentence, each iteration of the backward scan moves
\* it down by one and never below -1, and each iteration of the tagging loop
\* moves on to the next rule of the list, never beyond its end.
LoopStep(t, pc) == thr[t].pc = pc /\ thr'[t].pc = pc
C26_IndexMoves ==
  \A t \in Threads :
    /\ LoopStep(t, "forward") =>
         thr'[t].j = thr[t].j + 1 /\ thr'[t].j <= Len(thr[t].sentence_tokens)
    /\ LoopStep(t, "backward") =>
         thr'[t].j = thr[t].j - 1 /\ thr'[t].j >= -1
    /\ LoopStep(t, "rules") =>
         thr'[t].x = thr[t].x + 1 /\ thr[t].x <= Len(all_terms[KeyOrder[thr[t].k]])
C26_Terminates ==
  /\ \A t \in Threads : (thr[t].pc # "idle") ~> (thr[t].pc = "done")
  /\ [][C26_IndexMoves]_vars
\* the call returned after a backward scan emitted a feature, and its result
\* is the result of run_context
C26_Witness ==
  /\ thr[1].pc = "done"
  /\ HasFeature(thr[1].res, K_historical)
  /\ \E x \in DOMAIN thr[1].res.feature_list :
       /\ thr[1].res.feature_list[x].matched_phrase # <<>>
       /\ ~thr[1].res.feature_list[x].matched_phrase[1].sp
  /\ thr[1].res = run_context(thr[1].start, thr[1].term, thr[1].sentence).res

\* C27: run_context never returns Negation.Possible: the negation axis is
\* Affirmed or Negated, and a category emits features only when a token of
\* its sentence opens a [PREN], [FSTT], [ONEW] or [POST] tag; a [PREP],
\* [POSP], [PSEU] or [CONJ] tag starts no scan.
C27_NeverPossible ==
  Returned =>
    /\ call.res.negex \in {"Affirmed", "Negated"}
    /\ \A key \in DOMAIN call.tbl :
         HasFeature(call.res, key) =>
           \E q \in DOMAIN CallTokens(key) :
             Starts(CallTokens(key)[q], {"PREN", "FSTT", "ONEW", "POST"})
\* the only tag of the sentence is a [CONJ] tag, the target stands next to
\* it, and the call returned Affirmed without a feature
C27_Witness ==
  /\ Returned
  /\ LET toks == CallTokens(K_negated)
     IN  \E i, p \in DOMAIN toks :
           /\ Starts(toks[i], {"CONJ"}) /\ OnlyTagAt(toks, i)
           /\ IsTarget(toks[p])
           /\ p = i + 1
  /\ call.res.feature_list = <<>>
  /\ call.res.negex = "Affirmed"

\* C28: every forward scan starts with an empty candidate phrase.  The
\* matched_phrase of a feature emitted by a forward scan (its last piece is
\* a token followed by a blank) is a run of consecutive tokens, each
\* followed by a blank, that stand behind a token opening a [PREN], [FSTT]
\* or [ONEW] tag.
C28_ForwardStartsEmpty ==
  Returned =>
    \A key \in DOMAIN call.tbl :
      LET toks == CallTokens(key)
          ph == Phrases(call.res, key)
      IN  \A x \in DOMAIN ph :
            (ph[x] # <<>> /\ ph[x][Len(ph[x])].sp) =>
              /\ \A c \in DOMAIN ph[x] : ph[x][c].sp
              /\ \E i \in DOMAIN toks :
                   /\ Starts(toks[i], {"PREN", "FSTT", "ONEW"})
                   /\ \E a \in (i + 1)..Len(toks) :
                        /\ a + Len(ph[x]) - 1 <= Len(toks)
                        /\ PhraseCells(ph[x]) = SubSeq(toks, a, a + Len(ph[x]) - 1)

\* C29: a backward scan never emits a feature for a term of more than one
\* token.  The matched_phrase of a feature emitted by a backward scan (its
\* last piece is a token without a blank behind it) is one token, and a call
\* for a term of several words emits no feature in a category whose
\* sentence has no token opening a [PREN], [FSTT] or [ONEW] tag.
C29_BackwardSingleToken ==
  Returned =>
    \A key \in DOMAIN call.tbl :
      LET toks == CallTokens(key)
          ph == Phrases(call.res, key)
      IN  /\ \A x \in DOMAIN ph :
               (ph[x] # <<>> /\ ~ph[x][Len(ph[x])].sp) => Len(ph[x]) = 1
          /\ (/\ Len(call.term) > 1
              /\ \A q \in DOMAIN toks : ~Starts(toks[q], {"PREN", "FSTT", "ONEW"}))
             => ~HasFeature(call.res, key)
\* the two tokens of the quoted term stand right in front of a [POST] tag,
\* a token stands in front of them, and the call emitted no feature
C29_Witness ==
  /\ Returned
  /\ Len(call.term) = 2
  /\ LET toks == CallTokens(K_historical)
     IN  \E i \in DOMAIN toks :
           /\ i > 3
           /\ Starts(toks[i], {"POST"})
           /\ toks[i - 2].qo /\ toks[i - 2].w = call.term[1]
           /\ toks[i - 1].qc /\ toks[i - 1].w = call.term[2]
  /\ call.res.feature_list = <<>>

\* C30: trigger loading is latched.  Once context_init has completed no
\* later step calls load_terms or replaces the table, and a category whose
\* file could not be loaded stays empty.
C30_Latched ==
  inited => (inited' /\ loads' = loads /\ DOMAIN all_terms' = DOMAIN all_terms)
C30_LoadLatched ==
  /\ [][C30_Latched]_vars
  /\ [](inited => \A key \in DOMAIN all_terms : ~files[key].ok => all_terms[key] = <<>>)

====
